---- MODULE Spec2Model ----
(***************************************************************************)
(* Book catalog service (lecture_6/book_api, lecture_5/book_api): the      *)
(* single-table store, the request schemas with their validation, and the  *)
(* five route handlers of the /books router; the same handlers statement   *)
(* by statement on the worker threads that run them; the pagination        *)
(* helpers as pure functions; and the console grade analyzer (lecture_3).  *)
(* Each part has a specification of its own over the variables it uses,    *)
(* the other variables staying at rest.                                    *)
(*                                                                         *)
(* Strings are sequences of one-character strings ("Du" is <<"D","u">>),   *)
(* so that LIKE patterns, lower() and int() are computed character by      *)
(* character.  An optional value (Python None / SQL NULL) is a sequence of *)
(* length 0 or 1: None is <<>>, a present value x is <<x>>.                *)
(***************************************************************************)
EXTENDS Integers, Sequences, FiniteSets, TLC

VARIABLES
    table,      \* the rows of table "book": a set of [id, title, author, year]
    resp,       \* the last request handled and the response it got
    deleted,    \* history: identifiers deleted since the most recent Create
    workers,    \* per worker thread: the request it is running and how far it got
    calc,       \* the pagination helper being called: arguments and result
    students,   \* grade analyzer: the list "students", references into heap
    lookup,     \* grade analyzer: the dict "lookup", name -> reference
    heap,       \* grade analyzer: the student dicts, by reference
    out         \* grade analyzer: the menu operation last run and what it printed

analyzer == <<students, lookup, heap, out>>

vars == <<table, resp, deleted, workers, calc, students, lookup, heap, out>>

(***************************************************************************)
(* Bounds of the model.                                                    *)
(***************************************************************************)
MaxId == 3          \* largest identifier the store hands out
MaxPage == 3        \* largest page number requested
MaxArg == 5         \* largest argument of a pagination helper called alone
MaxRows == 27       \* largest table that List and Search are run on alone
MaxGrades == 3      \* largest number of grades the analyzer holds in all

(***************************************************************************)
(* Program constants.                                                      *)
(***************************************************************************)
MAX_LIMIT == 25     \* clamp_limit(limit, max_limit=25); Query(le=25)
YEAR_MAX == 2030    \* Field(ge=0, le=2030)
DEFAULT_LIMIT == 10 \* limit: ... = 10

HTTP_200_OK == 200
HTTP_201_CREATED == 201
HTTP_204_NO_CONTENT == 204
HTTP_404_NOT_FOUND == 404
HTTP_422_UNPROCESSABLE == 422
HTTP_500_INTERNAL == 500

(***************************************************************************)
(* Optional values.                                                        *)
(***************************************************************************)
None == <<>>
Some(x) == <<x>>

MaxOf(S) == CHOOSE m \in S : \A x \in S : m >= x

(***************************************************************************)
(* JSON values of a request body or query string, before validation.      *)
(* t is the JSON type; s the characters of a string; n the number (an      *)
(* integer, or a float given in tenths).  "absent" is a key that the      *)
(* request does not carry.                                                 *)
(***************************************************************************)
JAbsent == [t |-> "absent", s |-> <<>>, n |-> 0]
JNull == [t |-> "null", s |-> <<>>, n |-> 0]
JStr(str) == [t |-> "str", s |-> str, n |-> 0]
JInt(i) == [t |-> "int", s |-> <<>>, n |-> i]
JFloat(tenths) == [t |-> "float", s |-> <<>>, n |-> tenths]

(***************************************************************************)
(* Python int(v) as zero_or_empty_to_none calls it.  The result is         *)
(* [ok, val]: ok is FALSE where int raises ValueError or TypeError.        *)
(* A string is an optional sign followed by one or more decimal digits;    *)
(* a float is truncated toward zero.                                       *)
(***************************************************************************)
Digits == <<"0", "1", "2", "3", "4", "5", "6", "7", "8", "9">>

IsDigit(c) == \E d \in 1..Len(Digits) : Digits[d] = c

DigitVal(c) == (CHOOSE d \in 1..Len(Digits) : Digits[d] = c) - 1

RECURSIVE DigitsVal(_)
DigitsVal(str) ==
    IF str = <<>> THEN 0
    ELSE 10 * DigitsVal(SubSeq(str, 1, Len(str) - 1)) + DigitVal(str[Len(str)])

AllDigits(str) == Len(str) >= 1 /\ \A k \in 1..Len(str) : IsDigit(str[k])

PyIntStr(str) ==
    IF AllDigits(str) THEN [ok |-> TRUE, val |-> DigitsVal(str)]
    ELSE IF Len(str) >= 2 /\ str[1] = "-" /\ AllDigits(Tail(str))
         THEN [ok |-> TRUE, val |-> 0 - DigitsVal(Tail(str))]
    ELSE IF Len(str) >= 2 /\ str[1] = "+" /\ AllDigits(Tail(str))
         THEN [ok |-> TRUE, val |-> DigitsVal(Tail(str))]
    ELSE [ok |-> FALSE, val |-> 0]

PyTrunc(tenths) ==
    IF tenths >= 0 THEN tenths \div 10 ELSE 0 - ((0 - tenths) \div 10)

PyInt(v) ==
    CASE v.t = "int" -> [ok |-> TRUE, val |-> v.n]
      [] v.t = "float" -> [ok |-> TRUE, val |-> PyTrunc(v.n)]
      [] v.t = "str" -> PyIntStr(v.s)
      [] OTHER -> [ok |-> FALSE, val |-> 0]

(***************************************************************************)
(* BookBase.zero_or_empty_to_none: the "before" validator of year.  It     *)
(* maps a raw JSON value to the value handed to the field's own            *)
(* validation.                                                             *)
(***************************************************************************)
zero_or_empty_to_none(v) ==
    IF v = JStr(<<>>) \/ v = JNull THEN JNull
    ELSE LET iv == PyInt(v) IN
         IF ~iv.ok THEN v
         ELSE IF iv.val = 0 THEN JNull ELSE JInt(iv.val)

(***************************************************************************)
(* Field validation.  Each returns [ok, val]; val is the validated Python  *)
(* value (an optional).                                                    *)
(***************************************************************************)
\* year: int | None = Field(default=None, ge=0, le=2030), after the
\* "before" validator.  An absent key takes the default and is not validated.
\* A string reaches the int parser only where Python's int refused it.
ValidateYear(raw) ==
    IF raw.t = "absent" THEN [ok |-> TRUE, val |-> None]
    ELSE LET v == zero_or_empty_to_none(raw) IN
         CASE v.t = "null" -> [ok |-> TRUE, val |-> None]
           [] v.t = "int" ->
                IF v.n >= 0 /\ v.n <= YEAR_MAX
                THEN [ok |-> TRUE, val |-> Some(v.n)]
                ELSE [ok |-> FALSE, val |-> None]
           [] OTHER -> [ok |-> FALSE, val |-> None]

\* BookBase: title: str = Field(min_length=1); author likewise.
ValidateRequiredStr(raw) ==
    IF raw.t = "str" /\ Len(raw.s) >= 1
    THEN [ok |-> TRUE, val |-> Some(raw.s)]
    ELSE [ok |-> FALSE, val |-> None]

\* BookUpdate: title: str | None = Field(default=None); author likewise.
\* The override carries no min_length.
ValidateOptionalStr(raw) ==
    CASE raw.t = "str" -> [ok |-> TRUE, val |-> Some(raw.s)]
      [] raw.t = "null" -> [ok |-> TRUE, val |-> None]
      [] raw.t = "absent" -> [ok |-> TRUE, val |-> None]
      [] OTHER -> [ok |-> FALSE, val |-> None]

\* BookCreate(BookBase): the validated model, or ok = FALSE (422).  The
\* schema declares title, author and year; any other key of the body is
\* ignored.
BookCreate(body) ==
    LET t == ValidateRequiredStr(body.title)
        a == ValidateRequiredStr(body.author)
        y == ValidateYear(body.year)
    IN [ok |-> t.ok /\ a.ok /\ y.ok,
        title |-> t.val, author |-> a.val, year |-> y.val]

\* BookUpdate(BookBase): the validated model with model_fields_set.
BookUpdate(body) ==
    LET t == ValidateOptionalStr(body.title)
        a == ValidateOptionalStr(body.author)
        y == ValidateYear(body.year)
    IN [ok |-> t.ok /\ a.ok /\ y.ok,
        title |-> t.val, author |-> a.val, year |-> y.val,
        fields_set |-> {f \in {"title", "author", "year"} :
                           body[f].t # "absent"}]

\* BookRead(BookBase), validated from a row (response_model=BookRead,
\* list[BookRead] in PaginatedBook): title and author keep min_length=1.
BookRead(row) ==
    /\ Len(row.title) >= 1
    /\ Len(row.author) >= 1
    /\ (row.year # None => row.year[1] >= 0 /\ row.year[1] <= YEAR_MAX)

(***************************************************************************)
(* The store: table "book" of an SQLite database.  A row is                *)
(* [id, title, author, year]; title and author are strings (NOT NULL),     *)
(* year is optional.                                                       *)
(***************************************************************************)
Book(i, t, a, y) == [id |-> i, title |-> t, author |-> a, year |-> y]

Ids(rows) == {r.id : r \in rows}

\* id: int | None = Field(default=None, primary_key=True) on SQLite: an
\* INTEGER PRIMARY KEY without AUTOINCREMENT takes the largest id in the
\* table plus one, and 1 in an empty table.
NextId(rows) == IF rows = {} THEN 1 ELSE MaxOf(Ids(rows)) + 1

\* database.get(Book, book_id): the row, or None.
Get(rows, book_id) ==
    IF \E r \in rows : r.id = book_id
    THEN Some(CHOOSE r \in rows : r.id = book_id)
    ELSE None

\* query.order_by(Book.id): the rows as a sequence, ascending by id.
RECURSIVE OrderById(_)
OrderById(rows) ==
    IF rows = {} THEN <<>>
    ELSE LET first == CHOOSE r \in rows : \A q \in rows : r.id <= q.id
         IN <<first>> \o OrderById(rows \ {first})

\* .offset(k): drop the first k rows.
Offset(rowseq, k) == SubSeq(rowseq, k + 1, Len(rowseq))

\* .limit(n): keep at most n rows.
Limit(rowseq, n) == SubSeq(rowseq, 1, IF n < Len(rowseq) THEN n ELSE Len(rowseq))

(***************************************************************************)
(* lower() and LIKE of SQLite, as ilike compiles to them:                  *)
(* lower(x) LIKE lower(pattern).  In a pattern "%" matches any run of      *)
(* characters and "_" any one character; no escape character is set.       *)
(* lower() folds the ASCII letters only.                                   *)
(***************************************************************************)
UpperCase == <<"A", "D", "H", "U", "X">>
LowerCase == <<"a", "d", "h", "u", "x">>

LowerChar(c) ==
    IF \E k \in 1..Len(UpperCase) : UpperCase[k] = c
    THEN LowerCase[CHOOSE k \in 1..Len(UpperCase) : UpperCase[k] = c]
    ELSE c

Lower(str) == [k \in 1..Len(str) |-> LowerChar(str[k])]

RECURSIVE Like(_, _)
Like(str, pattern) ==
    IF pattern = <<>> THEN str = <<>>
    ELSE IF Head(pattern) = "%"
         THEN \E k \in 0..Len(str) :
                  Like(SubSeq(str, k + 1, Len(str)), Tail(pattern))
    ELSE IF str = <<>> THEN FALSE
    ELSE /\ (Head(pattern) = "_" \/ Head(pattern) = Head(str))
         /\ Like(Tail(str), Tail(pattern))

\* cast(column, String).ilike(f"%{needle}%")
ILikeContains(column, needle) ==
    Like(Lower(column), Lower(<<"%">> \o needle \o <<"%">>))

(***************************************************************************)
(* services/pagination (lecture_5/book_api/services.py)                    *)
(***************************************************************************)
compute_offset_from_zero(page, limit) == page * limit

\* compute_offset with a lower bound on the page.
compute_offset_checks_page(page, limit) ==
    IF page < 1 THEN 0 ELSE (page - 1) * limit

compute_offset(page, limit) == (page - 1) * limit

\* clamp_limit that returns the larger of the two.
clamp_limit_takes_larger(limit, max_limit) ==
    IF limit < max_limit THEN max_limit ELSE limit

clamp_limit(limit, max_limit) == IF limit < max_limit THEN limit ELSE max_limit

(***************************************************************************)
(* services/books.py                                                       *)
(***************************************************************************)
total_books(database) == Cardinality(database)

get_books(database, page, limit) ==
    Limit(Offset(OrderById(database), compute_offset(page, limit)), limit)

\* A response: the status, the body (books, page, limit, total; a single
\* record is a books list of one) and the table the request leaves behind.
Response(st, books, page, limit, total, rows) ==
    [status |-> st, books |-> books, page |-> page, limit |-> limit,
     total |-> total, table |-> rows]

Empty(st, rows) == Response(st, <<>>, 0, 0, 0, rows)

\* PaginatedBook(books=books, page=page, limit=limit, total=total):
\* validates every book as a BookRead; a failure is an unhandled exception.
PaginatedBook(books, page, limit, total, rows) ==
    IF \A k \in 1..Len(books) : BookRead(books[k])
    THEN Response(HTTP_200_OK, books, page, limit, total, rows)
    ELSE Empty(HTTP_500_INTERNAL, rows)

\* paginate_books without the empty-page check.
paginate_books_returns_empty_page(database, page, limit) ==
    PaginatedBook(get_books(database, page, limit), page,
                  clamp_limit(limit, MAX_LIMIT), total_books(database),
                  database)

\* paginate_books that fetches the page with the clamped limit.
paginate_books_fetches_clamped(database, page, limit) ==
    LET total == total_books(database)
        clamped_limit == clamp_limit(limit, MAX_LIMIT)
        books == get_books(database, page, clamped_limit)
    IN IF books = <<>> THEN Empty(HTTP_204_NO_CONTENT, database)
       ELSE PaginatedBook(books, page, clamped_limit, total, database)

paginate_books(database, page, limit) ==
    LET total == total_books(database)
        clamped_limit == clamp_limit(limit, MAX_LIMIT)
        books == get_books(database, page, limit)
    IN IF books = <<>> THEN Empty(HTTP_204_NO_CONTENT, database)
       ELSE PaginatedBook(books, page, clamped_limit, total, database)

(***************************************************************************)
(* routers/routers.py: the handlers.  Each takes the table and the raw     *)
(* request and returns a Response.  The parameter constraints (Query, Path *)
(* and the body schema) are checked first and answer 422.                  *)
(***************************************************************************)
\* page: Query(ge=1); limit: Query(ge=1, le=25)
PageLimitOk(page, limit) == page >= 1 /\ limit >= 1 /\ limit <= MAX_LIMIT

read_all_books(database, page, limit) ==
    IF ~PageLimitOk(page, limit) THEN Empty(HTTP_422_UNPROCESSABLE, database)
    ELSE paginate_books(database, page, limit)

\* create_book with a request schema that declares id: the caller's
\* identifier goes into the INSERT, and a taken one fails the commit.
create_book_accepts_id(database, book_request) ==
    LET request == BookCreate(book_request) IN
    IF ~request.ok THEN Empty(HTTP_422_UNPROCESSABLE, database)
    ELSE IF book_request.id.t = "int" /\ book_request.id.n \in Ids(database)
    THEN Empty(HTTP_500_INTERNAL, database)
    ELSE LET book == Book(IF book_request.id.t = "int" THEN book_request.id.n
                          ELSE NextId(database),
                          request.title[1], request.author[1], request.year)
             committed == database \cup {book}
         IN IF BookRead(book)
            THEN Response(HTTP_201_CREATED, <<book>>, 0, 0, 0, committed)
            ELSE Empty(HTTP_500_INTERNAL, committed)

create_book(database, book_request) ==
    LET request == BookCreate(book_request) IN
    IF ~request.ok THEN Empty(HTTP_422_UNPROCESSABLE, database)
    ELSE LET book == Book(NextId(database), request.title[1],
                          request.author[1], request.year)
             committed == database \cup {book}
         IN IF BookRead(book)
            THEN Response(HTTP_201_CREATED, <<book>>, 0, 0, 0, committed)
            ELSE Empty(HTTP_500_INTERNAL, committed)

\* search_by_title, search_by_author: str | None, Query(min_length=1);
\* search_by_year: int | None, Query(ge=0, le=2030)
SearchStrOk(v) == v.t = "absent" \/ (v.t = "str" /\ Len(v.s) >= 1)

SearchYearOk(v) == v.t = "absent" \/ (v.t = "int" /\ v.n >= 0 /\ v.n <= YEAR_MAX)

\* The filters list built from the three parameters.
Filters(search_by_title, search_by_author, search_by_year) ==
    {f \in {"title", "author", "year"} :
        \/ f = "title" /\ search_by_title.t = "str" /\ search_by_title.s # <<>>
        \/ f = "author" /\ search_by_author.t = "str" /\ search_by_author.s # <<>>
        \/ f = "year" /\ search_by_year.t # "absent"}

\* query.where(*filters): the rows every filter of the list accepts.
Where(database, filters, search_by_title, search_by_author, search_by_year) ==
    {r \in database :
        /\ "title" \in filters => ILikeContains(r.title, search_by_title.s)
        /\ "author" \in filters => ILikeContains(r.author, search_by_author.s)
        /\ "year" \in filters => r.year = Some(search_by_year.n)}

\* "if filters:" left out of the no-content test.
SearchMissesOnEmptyPageOnly(filters, books) == books = <<>>

\* if not filters or not books: raise HTTPException(204)
SearchMisses(filters, books) == filters = {} \/ books = <<>>

search_book(database, search_by_title, search_by_author, search_by_year, page, limit) ==
    IF ~(/\ SearchStrOk(search_by_title) /\ SearchStrOk(search_by_author)
         /\ SearchYearOk(search_by_year) /\ PageLimitOk(page, limit))
    THEN Empty(HTTP_422_UNPROCESSABLE, database)
    ELSE LET filters == Filters(search_by_title, search_by_author, search_by_year)
             offset == (page - 1) * limit
             query == Where(database, filters, search_by_title,
                            search_by_author, search_by_year)
             total == Cardinality(query)
             clamped_limit == clamp_limit(limit, MAX_LIMIT)
             books == Limit(Offset(OrderById(query), offset), limit)
         IN IF SearchMisses(filters, books)
            THEN Empty(HTTP_204_NO_CONTENT, database)
            ELSE PaginatedBook(books, page, clamped_limit, total, database)

\* book_request.model_dump(exclude_unset=True) applied by sqlmodel_update:
\* the object's attributes after the assignment (title and author optional
\* here, because the request may carry null).
\* model_dump() without exclude_unset: every field is assigned, an omitted
\* one with its default.
SqlmodelUpdateAllFields(book, request) ==
    [id |-> book.id, title |-> request.title, author |-> request.author,
     year |-> request.year]

SqlmodelUpdate(book, request) ==
    [id |-> book.id,
     title |-> IF "title" \in request.fields_set THEN request.title
               ELSE Some(book.title),
     author |-> IF "author" \in request.fields_set THEN request.author
                ELSE Some(book.author),
     year |-> IF "year" \in request.fields_set THEN request.year
              ELSE book.year]

update_book(database, book_request, book_id) ==
    LET request == BookUpdate(book_request) IN
    IF book_id < 1 \/ ~request.ok THEN Empty(HTTP_422_UNPROCESSABLE, database)
    ELSE LET book_to_update == Get(database, book_id) IN
         IF book_to_update = None THEN Empty(HTTP_404_NOT_FOUND, database)
         ELSE LET assigned == SqlmodelUpdate(book_to_update[1], request) IN
              \* database.commit(): title and author are NOT NULL columns;
              \* the IntegrityError leaves the handler and the session
              \* rolls back.
              IF assigned.title = None \/ assigned.author = None
              THEN Empty(HTTP_500_INTERNAL, database)
              ELSE LET book == Book(assigned.id, assigned.title[1],
                                    assigned.author[1], assigned.year)
                       committed == (database \ {book_to_update[1]}) \cup {book}
                   IN IF BookRead(book)
                      THEN Response(HTTP_200_OK, <<book>>, 0, 0, 0, committed)
                      ELSE Empty(HTTP_500_INTERNAL, committed)

\* The row is looked up and the deletion never reaches the table.
delete_book_without_removal(database, book_id) ==
    IF book_id < 1 THEN Empty(HTTP_422_UNPROCESSABLE, database)
    ELSE IF Get(database, book_id) = None
         THEN Empty(HTTP_404_NOT_FOUND, database)
         ELSE Empty(HTTP_204_NO_CONTENT, database)

\* The lookup result is not tested: a missing row is "deleted" too.
delete_book_ignores_missing(database, book_id) ==
    IF book_id < 1 THEN Empty(HTTP_422_UNPROCESSABLE, database)
    ELSE Empty(HTTP_204_NO_CONTENT, {r \in database : r.id # book_id})

delete_book(database, book_id) ==
    IF book_id < 1 THEN Empty(HTTP_422_UNPROCESSABLE, database)
    ELSE LET book_model == Get(database, book_id) IN
         IF book_model = None THEN Empty(HTTP_404_NOT_FOUND, database)
         ELSE Empty(HTTP_204_NO_CONTENT, database \ {book_model[1]})

(***************************************************************************)
(* The requests the clients send.                                          *)
(***************************************************************************)
Du == <<"D", "u">>
Xx == <<"x">>
Hh == <<"H">>
Y1999 == <<"1", "9", "9", "9">>

\* GET /books <<page, limit>>: small pages, the default and the largest
\* limit, and values the Query constraints refuse.
ListWindows ==
    {<<page, limit>> : page \in 1..MaxPage, limit \in {1, 2}}
    \cup {<<1, DEFAULT_LIMIT>>, <<1, MAX_LIMIT>>, <<0, 1>>, <<1, MAX_LIMIT + 1>>}

\* Path identifiers; 0 is refused by Path(ge=1).
BookIds == 0..MaxId

Request(i, page, limit, t, a, y) ==
    [id |-> i, page |-> page, limit |-> limit, title |-> t, author |-> a,
     year |-> y, body_id |-> JAbsent]

\* A JSON body; id is a key no request schema declares.
JsonBody(t, a, y) == [title |-> t, author |-> a, year |-> y, id |-> JAbsent]

\* The body with the key "id" added to it.
WithId(body, i) == [body EXCEPT !.id = JInt(i)]

\* POST /books bodies: every year form with one title, a second title, and
\* bodies the schema refuses.
CreateYears ==
    {JAbsent, JNull, JStr(<<>>), JStr(<<"0">>), JInt(0), JInt(1999),
     JStr(Y1999), JFloat(5), JFloat(19997)}

CreateBodies ==
    {JsonBody(JStr(Du), JStr(Hh), y) : y \in CreateYears}
    \cup {JsonBody(JStr(Xx), JStr(Hh), y) : y \in {JAbsent, JInt(1999)}}
    \cup {JsonBody(JStr(<<>>), JStr(Hh), JAbsent),
          JsonBody(JStr(Du), JStr(<<>>), JAbsent),
          JsonBody(JStr(Du), JAbsent, JAbsent),
          JsonBody(JStr(Du), JStr(Hh), JInt(YEAR_MAX + 1)),
          JsonBody(JStr(Du), JStr(Hh), JInt(-1)),
          JsonBody(JStr(Du), JStr(Hh), JStr(<<"x">>))}
    \cup {WithId(JsonBody(JStr(Du), JStr(Hh), JAbsent), i) : i \in {1, MaxId}}

\* PUT /books/{id} bodies: any subset of the keys.
UpdateBodies ==
    {JsonBody(t, JAbsent, y) :
        t \in {JAbsent, JNull, JStr(Xx), JStr(<<>>)},
        y \in {JAbsent, JInt(0), JInt(1999)}}
    \cup {JsonBody(t, a, JAbsent) :
        t \in {JAbsent, JStr(Xx)}, a \in {JStr(<<>>), JStr(Hh)}}
    \cup {JsonBody(JInt(1), JAbsent, JAbsent)}

\* <<body, book_id>>: every body on every identifier the store can hold,
\* and one request with the identifier 0.
UpdateRequests ==
    (UpdateBodies \X (BookIds \ {0}))
    \cup {<<JsonBody(JAbsent, JAbsent, JAbsent), 0>>,
          <<WithId(JsonBody(JStr(Xx), JAbsent, JAbsent), 2), 1>>}

\* GET /books/search parameters.
SearchTitles == {JAbsent, JStr(<<"d", "U">>), JStr(<<"%">>)}
SearchAuthors == {JAbsent, JStr(<<"h">>)}
SearchYears == {JAbsent, JInt(0), JInt(1999)}
SearchWindows == {<<1, MAX_LIMIT>>, <<2, 1>>}

(***************************************************************************)
(* The state machine: one action per route.                                *)
(***************************************************************************)
Handled(op, request, r) ==
    [op |-> op, req |-> request, status |-> r.status, books |-> r.books,
     page |-> r.page, limit |-> r.limit, total |-> r.total]

NoRequest == Request(0, 0, 0, JAbsent, JAbsent, JAbsent)

\* No request is being served: the session of the last one is closed.
NoResponse == Handled("none", NoRequest, Empty(0, {}))

Idle == resp = NoResponse

(***************************************************************************)
(* The parts at rest: no worker thread runs a request, no helper is being  *)
(* called, the grade analyzer has just started.                            *)
(***************************************************************************)
Workers == {"t1", "t2"}

Waiting ==
    [pc |-> "idle", op |-> "none", id |-> 0, page |-> 0, limit |-> 0,
     total |-> 0, found |-> None, overtaken |-> FALSE, status |-> 0,
     books |-> <<>>]

NoWorkers == workers = [w \in Workers |-> Waiting]

NoCall == [fn |-> "none", a |-> 0, b |-> 0, result |-> 0]

\* What a menu operation printed: which message ("said"), about which
\* name, listing which names, with which average (in tenths).
Output(op, said, name, names, average) ==
    [op |-> op, said |-> said, name |-> name, names |-> names,
     average |-> average]

NoOutput == Output("none", "none", <<>>, <<>>, 0)

\* main(): students = [], lookup = {}
AnalyzerStarted ==
    /\ students = <<>>
    /\ lookup = <<>>
    /\ heap = <<>>
    /\ out = NoOutput

Init ==
    /\ table = {}
    /\ resp = NoResponse
    /\ deleted = {}
    /\ NoWorkers
    /\ calc = NoCall
    /\ AnalyzerStarted

ReadAllBooks ==
    /\ Idle
    /\ \E w \in ListWindows :
        LET r == read_all_books(table, w[1], w[2]) IN
        /\ resp' = Handled("list", Request(0, w[1], w[2], JAbsent, JAbsent, JAbsent), r)
        /\ table' = r.table
        /\ UNCHANGED deleted
        /\ UNCHANGED <<workers, calc, analyzer>>

CreateBook ==
    /\ Idle
    /\ \E body \in CreateBodies :
        LET r == create_book(table, body) IN
        /\ \A b \in r.table : b.id <= MaxId
        /\ resp' = Handled("create", [Request(0, 0, 0, body.title, body.author, body.year) EXCEPT !.body_id = body.id], r)
        /\ table' = r.table
        /\ deleted' = IF r.table # table THEN {} ELSE deleted
        /\ UNCHANGED <<workers, calc, analyzer>>

SearchBook ==
    /\ Idle
    /\ \E t \in SearchTitles, a \in SearchAuthors, y \in SearchYears,
          w \in SearchWindows :
        LET r == search_book(table, t, a, y, w[1], w[2]) IN
        /\ resp' = Handled("search", Request(0, w[1], w[2], t, a, y), r)
        /\ table' = r.table
        /\ UNCHANGED deleted
        /\ UNCHANGED <<workers, calc, analyzer>>

UpdateBook ==
    /\ Idle
    /\ \E u \in UpdateRequests :
        LET body == u[1]
            book_id == u[2]
            r == update_book(table, body, book_id)
        IN
        /\ resp' = Handled("update", [Request(book_id, 0, 0, body.title, body.author, body.year) EXCEPT !.body_id = body.id], r)
        /\ table' = r.table
        /\ UNCHANGED deleted
        /\ UNCHANGED <<workers, calc, analyzer>>

DeleteBook ==
    /\ Idle
    /\ \E book_id \in BookIds :
        LET r == delete_book(table, book_id) IN
        /\ resp' = Handled("delete", Request(book_id, 0, 0, JAbsent, JAbsent, JAbsent), r)
        /\ table' = r.table
        /\ deleted' = IF r.status = HTTP_204_NO_CONTENT
                      THEN deleted \cup {book_id} ELSE deleted
        /\ UNCHANGED <<workers, calc, analyzer>>

\* get_session after its yield: the response has been produced, the
\* request's session commits what is pending (nothing: the handlers commit
\* themselves) and closes.
EndRequest ==
    /\ ~Idle
    /\ resp' = NoResponse
    /\ UNCHANGED <<table, deleted, workers, calc, analyzer>>

Next ==
    \/ ReadAllBooks
    \/ CreateBook
    \/ SearchBook
    \/ UpdateBook
    \/ DeleteBook
    \/ EndRequest

Spec == Init /\ [][Next]_vars

(***************************************************************************)
(* Properties.                                                             *)
(***************************************************************************)
\* The number of stored rows whose identifier is below that of r: the
\* position of r, counted from 0, among all rows by ascending identifier.
Rank(rows, r) == Cardinality({q \in rows : q.id < r.id})

\* seq is the window [offset, offset + limit) of rows taken by ascending
\* identifier.
IsWindow(seq, rows, offset, limit) ==
    LET rest == Cardinality(rows) - offset
        size == IF rest <= 0 THEN 0 ELSE IF rest < limit THEN rest ELSE limit
    IN /\ Len(seq) = size
       /\ \A k \in 1..Len(seq) :
              seq[k] \in rows /\ Rank(rows, seq[k]) = offset + k - 1

StrictlyAscending(seq) ==
    \A j, k \in 1..Len(seq) : j < k => seq[j].id < seq[k].id

ValidListRequest ==
    resp.op = "list" /\ PageLimitOk(resp.req.page, resp.req.limit)

\* C1: for every table content, page >= 1 and limit >= 1, get_books returns
\* exactly the rows at positions [(page-1)*limit, (page-1)*limit + limit) of
\* the rows sorted by identifier ascending, at most limit of them, in strictly
\* ascending identifier order; a 200 List response carries that window.
\* (Every table content occurs in an idle state, so the first conjunct is
\* evaluated once per table content.)
C1_PageIsWindow ==
    /\ Idle =>
          \A page \in 1..MaxPage, limit \in {1, 2, MAX_LIMIT} :
              LET books == get_books(table, page, limit) IN
              /\ IsWindow(books, table, (page - 1) * limit, limit)
              /\ Len(books) <= limit
              /\ StrictlyAscending(books)
    /\ (ValidListRequest /\ resp.status = HTTP_200_OK) =>
          /\ IsWindow(resp.books, table,
                      (resp.req.page - 1) * resp.req.limit, resp.req.limit)
          /\ StrictlyAscending(resp.books)

\* A List of page 2 with limit 2 on three rows answers the single third row.
C1_Witness ==
    /\ ValidListRequest /\ resp.status = HTTP_200_OK
    /\ resp.req.page = 2 /\ resp.req.limit = 2
    /\ Cardinality(table) = 3 /\ Len(resp.books) = 1

\* str contains needle as a substring, letter case ignored.
Contains(str, needle) ==
    \E i \in 1..(Len(str) - Len(needle) + 1) :
        \A k \in 1..Len(needle) :
            LowerChar(str[i + k - 1]) = LowerChar(needle[k])

\* The row satisfies every criterion the search request supplies.
Satisfies(r, request) ==
    /\ request.title.t = "str" => Contains(r.title, request.title.s)
    /\ request.author.t = "str" => Contains(r.author, request.author.s)
    /\ request.year.t = "int" => r.year = Some(request.year.n)

Matching(rows, request) == {r \in rows : Satisfies(r, request)}

HasCriterion(request) ==
    request.title.t # "absent" \/ request.author.t # "absent"
        \/ request.year.t # "absent"

ValidSearchRequest ==
    /\ resp.op = "search"
    /\ SearchStrOk(resp.req.title) /\ SearchStrOk(resp.req.author)
    /\ SearchYearOk(resp.req.year)
    /\ PageLimitOk(resp.req.page, resp.req.limit)

\* C2: in every paginated result, total is the number of rows matching the
\* active filters (all rows for List; the rows satisfying the supplied
\* criteria for Search), whatever the page and limit.
C2_TotalIsMatchCount ==
    /\ (ValidListRequest /\ resp.status = HTTP_200_OK) =>
           resp.total = Cardinality(table)
    /\ (ValidSearchRequest /\ resp.status = HTTP_200_OK) =>
           /\ resp.total = Cardinality(Matching(table, resp.req))
           /\ \A w \in SearchWindows :
                  LET r == search_book(table, resp.req.title, resp.req.author,
                                       resp.req.year, w[1], w[2])
                  IN r.status = HTTP_200_OK => r.total = resp.total

\* C3: a Search with at least one criterion returns exactly the requested
\* offset/limit window of the rows, ascending by identifier, that satisfy
\* all supplied criteria (substring of title, substring of author, letter
\* case ignored; year equal).
C3_SearchIsFilteredWindow ==
    (/\ ValidSearchRequest /\ HasCriterion(resp.req)
     /\ resp.status \in {HTTP_200_OK, HTTP_204_NO_CONTENT}) =>
        IsWindow(resp.books, Matching(table, resp.req),
                 (resp.req.page - 1) * resp.req.limit, resp.req.limit)

\* C4: a Search that supplies no criterion answers 204 with no body, for
\* every table content, page and limit.
C4_NoCriteriaNoContent ==
    (ValidSearchRequest /\ ~HasCriterion(resp.req)) =>
        resp.status = HTTP_204_NO_CONTENT /\ resp.books = <<>>

\* A Search without criteria on a table that holds rows was answered 204.
C4_Witness ==
    /\ ValidSearchRequest /\ ~HasCriterion(resp.req)
    /\ table # {}
    /\ resp.status = HTTP_204_NO_CONTENT

\* C5: a List whose page is empty (its offset is at or past the number of
\* rows) answers 204 and never a paginated body with an empty books list.
C5_EmptyPageNoContent ==
    ValidListRequest =>
        /\ (resp.req.page - 1) * resp.req.limit >= Cardinality(table) =>
               resp.status = HTTP_204_NO_CONTENT /\ resp.books = <<>>
        /\ resp.status = HTTP_200_OK => resp.books # <<>>

\* Page 1 with limit 10 on the empty table was answered 204.
C5_Witness ==
    /\ ValidListRequest
    /\ resp.req.page = 1 /\ resp.req.limit = DEFAULT_LIMIT
    /\ table = {}
    /\ resp.status = HTTP_204_NO_CONTENT /\ resp.total = 0

\* The supplied year is one of the forms that stand for "no year".
SuppliedNoYear(raw) ==
    raw \in {JAbsent, JNull, JStr(<<>>), JStr(<<"0">>), JInt(0)}

\* The supplied year is the number n.
SuppliedYearIs(raw, n) ==
    \/ raw.t = "int" /\ raw.n = n
    \/ raw.t = "str" /\ AllDigits(raw.s) /\ DigitsVal(raw.s) = n
    \/ raw.t = "float" /\ raw.n = 10 * n

\* C6: after a Create, the row stored under the returned identifier has the
\* supplied title and author, and its year equals the supplied year, except
\* that 0, "0", "" or an absent year is stored as null; no row has year 0.
C6_CreateRoundTrip ==
    /\ (resp.op = "create" /\ resp.status = HTTP_201_CREATED) =>
          LET stored == Get(table, resp.books[1].id) IN
          /\ stored # None
          /\ stored[1].title = resp.req.title.s
          /\ stored[1].author = resp.req.author.s
          /\ IF SuppliedNoYear(resp.req.year) THEN stored[1].year = None
             ELSE /\ stored[1].year # None
                  /\ SuppliedYearIs(resp.req.year, stored[1].year[1])
    /\ \A r \in table : r.year # Some(0)

\* C7: an Update of an existing row leaves every omitted field, the
\* identifier and every other row unchanged, and a successful one gives
\* each field present in the request the requested value.
C7_UpdateIsPartial ==
    [][(resp'.op = "update" /\ Get(table, resp'.req.id) # None) =>
          LET old == Get(table, resp'.req.id)[1]
              new == Get(table', resp'.req.id)
              request == resp'.req
          IN /\ new # None
             /\ Ids(table') = Ids(table)
             /\ Cardinality(table') = Cardinality(table)
             /\ \A r \in table : r.id # old.id => r \in table'
             /\ request.title.t = "absent" => new[1].title = old.title
             /\ request.author.t = "absent" => new[1].author = old.author
             /\ request.year.t = "absent" => new[1].year = old.year
             /\ resp'.status = HTTP_200_OK =>
                   /\ request.title.t = "str" => new[1].title = request.title.s
                   /\ request.author.t = "str" => new[1].author = request.author.s
                   /\ request.year.t = "int" =>
                         new[1].year = IF request.year.n = 0 THEN None
                                       ELSE Some(request.year.n)
                   /\ resp'.books = <<new[1]>>
      ]_vars

\* An Update that carried only a title succeeded on a row that keeps its
\* author and its year.
C7_Witness ==
    /\ resp.op = "update" /\ resp.status = HTTP_200_OK
    /\ resp.req.title = JStr(Xx)
    /\ resp.req.author = JAbsent /\ resp.req.year = JAbsent
    /\ Get(table, resp.req.id) = Some(Book(resp.req.id, Xx, Hh, Some(1999)))
    /\ Cardinality(table) >= 2

\* C8: after a successful Delete of identifier i and until a later Create,
\* a fetch by i finds nothing, Update and Delete on i answer 404, no List or
\* Search result holds i, and the Delete changed no other row.
C8_DeleteThenRead ==
    [][/\ \A i \in deleted' : Get(table', i) = None
       /\ (/\ resp'.op \in {"update", "delete"}
           /\ resp'.req.id \in deleted
           /\ resp'.status # HTTP_422_UNPROCESSABLE) =>
              resp'.status = HTTP_404_NOT_FOUND
       /\ resp'.op \in {"list", "search"} =>
              \A k \in 1..Len(resp'.books) : resp'.books[k].id \notin deleted
       /\ (resp'.op = "delete" /\ resp'.status = HTTP_204_NO_CONTENT) =>
              /\ resp'.req.id \in Ids(table)
              /\ table' = {r \in table : r.id # resp'.req.id}
      ]_vars

\* An Update addressed a deleted identifier, while other rows remain, and
\* was answered 404.
C8_Witness ==
    /\ resp.op = "update" /\ resp.req.id \in deleted
    /\ resp.status = HTTP_404_NOT_FOUND
    /\ table # {}

\* C9: an Update or a Delete whose identifier matches no row answers 404
\* and leaves the table as it was.
C9_MissingIdNotFound ==
    [][(/\ resp'.op \in {"update", "delete"}
        /\ resp'.status # HTTP_422_UNPROCESSABLE
        /\ Get(table, resp'.req.id) = None) =>
           resp'.status = HTTP_404_NOT_FOUND /\ table' = table
      ]_vars

\* A Delete of an identifier that matches none of the stored rows was
\* answered 404.
C9_Witness ==
    /\ resp.op = "delete" /\ resp.status = HTTP_404_NOT_FOUND
    /\ table # {} /\ resp.req.id \notin Ids(table)

\* C10: every stored row has a non-empty title and a non-empty author.
C10_TitleAuthorNonEmpty ==
    \A r \in table : r.title # <<>> /\ r.author # <<>>

\* C11: identifiers are assigned by the store and are unique.  A Create
\* answers as if the body carried no "id" key and the identifier it returns
\* is that of no row stored before; an Update, whatever its body carries,
\* leaves the set of stored identifiers as it was and answers with the row
\* of the path identifier; and no two stored rows share an identifier.
UniqueIds(rows) == \A r, q \in rows : r.id = q.id => r = q

C11_StoreAssignsUniqueIds ==
    [][/\ UniqueIds(table')
       /\ resp'.op = "create" =>
            LET body == JsonBody(resp'.req.title, resp'.req.author, resp'.req.year)
                sent == [body EXCEPT !.id = resp'.req.body_id]
            IN /\ resp'.books = create_book(table, body).books
               /\ table' = create_book(table, body).table
               /\ create_book(table, sent).status = resp'.status
               /\ resp'.status = HTTP_201_CREATED =>
                    /\ resp'.books[1].id \notin Ids(table)
                    /\ Ids(table') = Ids(table) \cup {resp'.books[1].id}
       /\ resp'.op = "update" =>
            /\ Ids(table') = Ids(table)
            /\ resp'.status = HTTP_200_OK => resp'.books[1].id = resp'.req.id
      ]_vars

\* A Create whose body carries the identifier of a stored row is answered
\* 201 with another identifier, in a table that had a row deleted before.
C11_Witness ==
    /\ resp.op = "create"
    /\ resp.status = HTTP_201_CREATED
    /\ resp.req.body_id.t = "int"
    /\ resp.req.body_id.n # resp.books[1].id
    /\ Cardinality(table) >= 2
    /\ \E i \in 1..MaxId : i \notin Ids(table) /\ i < resp.books[1].id

\* C12: every operation is all-or-nothing on the store.  A request that
\* fails (422, 404, 500, or the 204 that List and Search signal) leaves the
\* table exactly as it was before the request, also when the failing step
\* comes after the handler's own commit.
RequestFailed(r) ==
    \/ r.status \in {HTTP_404_NOT_FOUND, HTTP_422_UNPROCESSABLE, HTTP_500_INTERNAL}
    \/ r.status = HTTP_204_NO_CONTENT /\ r.op \in {"list", "search"}

C12_AllOrNothing == [][RequestFailed(resp') => table' = table]_vars

(***************************************************************************)
(* The handlers on worker threads.  The route handlers are plain "def"     *)
(* functions, which the framework runs on the threads of a pool; every     *)
(* request has a session of its own on the one engine, opened with         *)
(* check_same_thread False.  A handler's statements against the store are  *)
(* separate steps here: the count and the page fetch of a List, the        *)
(* fetch-by-identifier and the commit of an Update or a Delete.  SELECTs   *)
(* open no transaction, so a commit of another request can come between.   *)
(***************************************************************************)
ThreadWindows == {<<1, 2>>, <<2, 1>>}

ThreadIds == 1..MaxId

Started(op, book_id, page, limit) ==
    [Waiting EXCEPT !.op = op, !.id = book_id, !.page = page, !.limit = limit]

Finished(local, status, books) ==
    [local EXCEPT !.pc = "done", !.status = status, !.books = books]

\* History: worker w has changed the table while the others were between
\* two statements of theirs.
Overtake(w, ws, changed) ==
    [u \in Workers |->
        IF changed /\ u # w /\ ws[u].pc \in {"counted", "got"}
        THEN [ws[u] EXCEPT !.overtaken = TRUE] ELSE ws[u]]

\* create_book: add, commit, refresh (one INSERT and its commit).
ThreadCreate(w) ==
    /\ workers[w].pc = "idle"
    /\ LET r == create_book(table, JsonBody(JStr(Du), JStr(Hh), JAbsent)) IN
       /\ \A b \in r.table : b.id <= MaxId
       /\ table' = r.table
       /\ workers' = Overtake(w, [workers EXCEPT ![w] =
                        Finished(Started("create", 0, 0, 0), r.status, r.books)],
                        TRUE)
    /\ UNCHANGED <<resp, deleted, calc, analyzer>>

\* paginate_books: total = total_books(database)
ThreadListCount(w) ==
    /\ workers[w].pc = "idle"
    /\ \E win \in ThreadWindows :
        workers' = [workers EXCEPT ![w] =
            [Started("list", 0, win[1], win[2]) EXCEPT
                !.pc = "counted", !.total = total_books(table)]]
    /\ UNCHANGED <<table, resp, deleted, calc, analyzer>>

\* paginate_books: books = get_books(...), the 204 check and the result.
ThreadListFetch(w) ==
    /\ workers[w].pc = "counted"
    /\ LET local == workers[w]
           books == get_books(table, local.page, local.limit)
           r == IF books = <<>> THEN Empty(HTTP_204_NO_CONTENT, table)
                ELSE PaginatedBook(books, local.page,
                                   clamp_limit(local.limit, MAX_LIMIT),
                                   local.total, table)
       IN workers' = [workers EXCEPT ![w] = Finished(local, r.status, r.books)]
    /\ UNCHANGED <<table, resp, deleted, calc, analyzer>>

\* update_book, delete_book: database.get(Book, book_id) and the 404.
ThreadGet(w) ==
    /\ workers[w].pc = "idle"
    /\ \E op \in {"update", "delete"}, book_id \in ThreadIds :
        LET found == Get(table, book_id) IN
        workers' = [workers EXCEPT ![w] =
            IF found = None
            THEN Finished(Started(op, book_id, 0, 0), HTTP_404_NOT_FOUND, <<>>)
            ELSE [Started(op, book_id, 0, 0) EXCEPT !.pc = "got", !.found = found]]
    /\ UNCHANGED <<table, resp, deleted, calc, analyzer>>

\* update_book with the body {"title": "x"}: sqlmodel_update, add, commit,
\* refresh.  The flush writes the columns whose value differs from the one
\* loaded, in an UPDATE by primary key that must match one row; the refresh
\* reads the row back by primary key and fails when it is gone.
ThreadUpdateCommit(w) ==
    /\ workers[w].pc = "got"
    /\ workers[w].op = "update"
    /\ LET local == workers[w]
           current == Get(table, local.id)
           written == local.found[1].title # Xx
           after == IF current = None \/ ~written THEN table
                    ELSE (table \ {current[1]})
                         \cup {[current[1] EXCEPT !.title = Xx]}
           book == Get(after, local.id)
       IN /\ table' = after
          /\ workers' = Overtake(w, [workers EXCEPT ![w] =
                IF book = None \/ ~BookRead(book[1])
                THEN Finished(local, HTTP_500_INTERNAL, <<>>)
                ELSE Finished(local, HTTP_200_OK, book)], after # table)
    /\ UNCHANGED <<resp, deleted, calc, analyzer>>

\* delete_book: delete, commit.  The DELETE by primary key that matches no
\* row is a warning of the mapper, not an error.
ThreadDeleteCommit(w) ==
    /\ workers[w].pc = "got"
    /\ workers[w].op = "delete"
    /\ LET local == workers[w]
           after == {b \in table : b.id # local.id}
       IN /\ table' = after
          /\ workers' = Overtake(w, [workers EXCEPT ![w] =
                Finished(local, HTTP_204_NO_CONTENT, <<>>)], after # table)
    /\ UNCHANGED <<resp, deleted, calc, analyzer>>

\* The response is sent and the thread goes back to the pool.
ThreadRespond(w) ==
    /\ workers[w].pc = "done"
    /\ workers' = [workers EXCEPT ![w] = Waiting]
    /\ UNCHANGED <<table, resp, deleted, calc, analyzer>>

NextThreads ==
    \E w \in Workers :
        \/ ThreadCreate(w)
        \/ ThreadListCount(w)
        \/ ThreadListFetch(w)
        \/ ThreadGet(w)
        \/ ThreadUpdateCommit(w)
        \/ ThreadDeleteCommit(w)
        \/ ThreadRespond(w)

SpecThreads == Init /\ [][NextThreads]_vars

\* C13 as stated: catalog operations never interleave.  While a request is
\* between its count and its page fetch, or between its fetch-by-identifier
\* and its commit, no other request executes a statement against the store.
C13_NeverInterleave ==
    [][\A w \in Workers :
        workers[w].pc \in {"counted", "got"} =>
            \A u \in Workers \ {w} :
                workers[u].pc = "done" \/ workers'[u].pc = workers[u].pc]_vars

\* C13, amended: requests interleave between their statements, and only
\* the single statement is atomic.  A request runs its own statements in
\* order, one worker per step; a List reports the row count of its count
\* query and the page of its page fetch, and an Update or Delete commits
\* on the identifier it fetched.  When no other request has changed the
\* table in between, the List's total is the number of rows its page was
\* cut from and the row an Update or Delete fetched is still the stored one.
PcOrder ==
    {<<"idle", "counted">>, <<"counted", "done">>, <<"idle", "got">>,
     <<"got", "done">>, <<"idle", "done">>, <<"done", "idle">>}

C13_StatementsInOrder ==
    [][/\ \A w, u \in Workers :
            w # u => workers'[w].pc = workers[w].pc \/ workers'[u].pc = workers[u].pc
       /\ \A w \in Workers :
            LET before == workers[w]
                after == workers'[w]
            IN /\ after.pc # before.pc => <<before.pc, after.pc>> \in PcOrder
               /\ after.pc = "counted" /\ before.pc = "idle" =>
                    after.total = Cardinality(table) /\ table' = table
               /\ before.pc = "counted" /\ after.pc = "done" =>
                    /\ table' = table
                    /\ after.total = before.total
                    /\ after.status \in {HTTP_200_OK, HTTP_204_NO_CONTENT}
                    /\ IsWindow(after.books, table,
                                (before.page - 1) * before.limit, before.limit)
                    /\ after.status = HTTP_204_NO_CONTENT <=> after.books = <<>>
                    /\ ~before.overtaken => after.total = Cardinality(table)
               /\ before.pc = "got" /\ after.pc = "done" =>
                    /\ {b \in table' : b.id # before.id} = {b \in table : b.id # before.id}
                    /\ ~before.overtaken => before.found[1] \in table
                    /\ before.op = "delete" => before.id \notin Ids(table')
      ]_vars

\* A List answered 200 with a book on its page and a total of 0: the row
\* was committed by the other worker between the count and the page fetch.
C13_Witness ==
    \E w \in Workers :
        /\ workers[w].pc = "done"
        /\ workers[w].op = "list"
        /\ workers[w].status = HTTP_200_OK
        /\ workers[w].overtaken
        /\ workers[w].total < Len(workers[w].books)

(***************************************************************************)
(* The pagination helpers as pure functions (lecture_5 services.py): every *)
(* pair of arguments of a bounded range, and one call on it.  Python       *)
(* integers have no width, so nothing overflows.                           *)
(***************************************************************************)
Args == (-MaxArg..MaxArg) \cup {MAX_LIMIT, MAX_LIMIT + 1}

InitPagination ==
    /\ table = {}
    /\ resp = NoResponse
    /\ deleted = {}
    /\ NoWorkers
    /\ \E x \in Args, y \in Args : calc = [NoCall EXCEPT !.a = x, !.b = y]
    /\ AnalyzerStarted

\* compute_offset(page = a, limit = b)
CallComputeOffset ==
    /\ calc.fn = "none"
    /\ calc' = [calc EXCEPT !.fn = "compute_offset",
                            !.result = compute_offset(calc.a, calc.b)]
    /\ UNCHANGED <<table, resp, deleted, workers, analyzer>>

\* clamp_limit(limit = a, max_limit = b)
CallClampLimit ==
    /\ calc.fn = "none"
    /\ calc' = [calc EXCEPT !.fn = "clamp_limit",
                            !.result = clamp_limit(calc.a, calc.b)]
    /\ UNCHANGED <<table, resp, deleted, workers, analyzer>>

NextPagination == CallComputeOffset \/ CallClampLimit

SpecPagination == InitPagination /\ [][NextPagination]_vars

\* C14: compute_offset(p, n) is (p-1)*n for all integers p and n, with no
\* bounds check of its own: it is 0 for p = 1, never negative for p >= 1
\* and n >= 1, and it goes below 0 for a page below 1 instead of being
\* held at 0 or refused.
C14_ComputeOffset ==
    calc.fn = "compute_offset" =>
        LET p == calc.a
            n == calc.b
        IN /\ calc.result = p * n - n
           /\ p = 1 => calc.result = 0
           /\ p >= 1 /\ n >= 1 => calc.result >= 0
           /\ p < 1 /\ n >= 1 => calc.result < 0

\* compute_offset(0, 5) = -5 has been computed.
C14_Witness ==
    calc.fn = "compute_offset" /\ calc.a = 0 /\ calc.b = 5 /\ calc.result = -5

\* C15: clamp_limit(limit, max_limit) is min(limit, max_limit) for all
\* non-negative arguments: one of the two, never above max_limit, and limit
\* itself whenever limit <= max_limit.
C15_ClampLimit ==
    calc.fn = "clamp_limit" /\ calc.a >= 0 /\ calc.b >= 0 =>
        /\ calc.result \in {calc.a, calc.b}
        /\ calc.result <= calc.b
        /\ calc.result <= calc.a
        /\ calc.a <= calc.b => calc.result = calc.a

\* clamp_limit(26, 25) = 25 has been computed.
C15_Witness ==
    /\ calc.fn = "clamp_limit"
    /\ calc.a = MAX_LIMIT + 1
    /\ calc.b = MAX_LIMIT
    /\ calc.result = MAX_LIMIT

(***************************************************************************)
(* Student grade analyzer (lecture_3/student_grade_analyzer.py).  The      *)
(* student dicts live in heap; the list "students" and the dict "lookup"   *)
(* hold references to them, so that two references to one dict and two     *)
(* dicts with equal contents are different things.  What the user types    *)
(* is a sequence of lines per prompt loop.  Averages are in tenths.        *)
(***************************************************************************)
Alpha(c) ==
    \/ \E k \in 1..Len(UpperCase) : UpperCase[k] = c
    \/ \E k \in 1..Len(LowerCase) : LowerCase[k] = c

UpperChar(c) ==
    IF \E k \in 1..Len(LowerCase) : LowerCase[k] = c
    THEN UpperCase[CHOOSE k \in 1..Len(LowerCase) : LowerCase[k] = c]
    ELSE c

\* str.strip()
RECURSIVE Strip(_)
Strip(str) ==
    IF str # <<>> /\ Head(str) = " " THEN Strip(Tail(str))
    ELSE IF str # <<>> /\ str[Len(str)] = " "
         THEN Strip(SubSeq(str, 1, Len(str) - 1))
    ELSE str

\* " ".join(str.split()) of a stripped string: a run of spaces becomes one.
RECURSIVE JoinSplit(_)
JoinSplit(str) ==
    IF Len(str) < 2 THEN str
    ELSE IF str[1] = " " /\ str[2] = " " THEN JoinSplit(Tail(str))
    ELSE <<str[1]>> \o JoinSplit(Tail(str))

\* str.title(): a letter after a non-letter is upper case, any other letter
\* is lower case.
Title(str) ==
    [k \in 1..Len(str) |->
        IF k = 1 \/ ~Alpha(str[k - 1]) THEN UpperChar(str[k])
        ELSE LowerChar(str[k])]

\* The ASCII part of allowed_char = " -‐‑–'ʼ'′"
allowed_char == {" ", "-", "'"}

\* check_name over the lines typed at its prompt: returned is FALSE while
\* the loop is still asking; name is None after "1".
RECURSIVE check_name(_)
check_name(attempts) ==
    IF attempts = <<>> THEN [returned |-> FALSE, name |-> None]
    ELSE LET name_input == Strip(Head(attempts)) IN
         IF name_input = <<>> THEN check_name(Tail(attempts))
         ELSE IF name_input = <<"1">> THEN [returned |-> TRUE, name |-> None]
         ELSE IF ~\A k \in 1..Len(name_input) :
                    Alpha(name_input[k]) \/ name_input[k] \in allowed_char
              THEN check_name(Tail(attempts))
         ELSE [returned |-> TRUE, name |-> Some(Title(JoinSplit(name_input)))]

\* lookup.get(student_name)
find_student(lk, student_name) ==
    IF student_name \in DOMAIN lk THEN Some(lk[student_name]) ELSE None

\* lookup[student_name] = student
SetItem(lk, key, ref) ==
    [k \in DOMAIN lk \cup {key} |-> IF k = key THEN ref ELSE lk[k]]

any_grades(st, hp) == \E i \in 1..Len(st) : hp[st[i]].grades # <<>>

RECURSIVE SumOf(_)
SumOf(grades) == IF grades = <<>> THEN 0 ELSE Head(grades) + SumOf(Tail(grades))

\* round(x, 1) of x = num / (10 * den), in tenths: the nearest tenth, and the
\* even one of two equally near (x is then a multiple of 1/4 for the list
\* lengths in range, which a float holds exactly).
RoundTenths(num, den) ==
    LET q == num \div den
        r == num % den
    IN IF 2 * r < den THEN q
       ELSE IF 2 * r > den THEN q + 1
       ELSE IF q % 2 = 0 THEN q ELSE q + 1

\* round(sum(grades) / len(grades), 1)
calculate_average(grades) == RoundTenths(10 * SumOf(grades), Len(grades))

Analyzer(st, lk, hp, o) == [students |-> st, lookup |-> lk, heap |-> hp, out |-> o]

\* add_student whose lookup entry is a dict of its own with the same
\* contents.
add_student_copies_record(st, lk, hp, attempts) ==
    LET checked == check_name(attempts) IN
    IF checked.name = None
    THEN Analyzer(st, lk, hp, Output("add_student", "returned", <<>>, <<>>, 0))
    ELSE LET student_name == checked.name[1]
             student == [name |-> student_name, grades |-> <<>>]
         IN IF find_student(lk, student_name) # None
            THEN Analyzer(st, lk, hp,
                          Output("add_student", "exists", student_name, <<>>, 0))
            ELSE Analyzer(Append(st, Len(hp) + 1),
                          SetItem(lk, student_name, Len(hp) + 2),
                          hp \o <<student, student>>,
                          Output("add_student", "added", student_name, <<>>, 0))

add_student(st, lk, hp, attempts) ==
    LET checked == check_name(attempts) IN
    IF checked.name = None
    THEN Analyzer(st, lk, hp, Output("add_student", "returned", <<>>, <<>>, 0))
    ELSE LET student_name == checked.name[1]
             student == [name |-> student_name, grades |-> <<>>]
             ref == Len(hp) + 1
         IN IF find_student(lk, student_name) # None
            THEN Analyzer(st, lk, hp,
                          Output("add_student", "exists", student_name, <<>>, 0))
            ELSE Analyzer(Append(st, ref), SetItem(lk, student_name, ref),
                          Append(hp, student),
                          Output("add_student", "added", student_name, <<>>, 0))

\* The grade loop of add_grades over the lines typed: finished is FALSE
\* while the loop is still asking.
RECURSIVE ReadGrades(_, _)
ReadGrades(grades, typed) ==
    IF typed = <<>> THEN [finished |-> FALSE, grades |-> grades]
    ELSE LET grade_input == Head(typed)
             grade == PyIntStr(grade_input)
         IN IF Lower(grade_input) = <<"d", "o", "n", "e">>
            THEN [finished |-> TRUE, grades |-> grades]
            ELSE IF grade.ok /\ 0 <= grade.val /\ grade.val <= 100
            THEN ReadGrades(Append(grades, grade.val), Tail(typed))
            ELSE ReadGrades(grades, Tail(typed))

add_grades(st, lk, hp, attempts, typed) ==
    IF st = <<>>
    THEN Analyzer(st, lk, hp, Output("add_grades", "no_students", <<>>, <<>>, 0))
    ELSE LET checked == check_name(attempts) IN
         IF checked.name = None
         THEN Analyzer(st, lk, hp, Output("add_grades", "returned", <<>>, <<>>, 0))
         ELSE LET student_name == checked.name[1]
                  student == find_student(lk, student_name)
              IN IF student = None
                 THEN Analyzer(st, lk, hp,
                        Output("add_grades", "not_found", student_name, <<>>, 0))
                 ELSE Analyzer(st, lk,
                        [hp EXCEPT ![student[1]].grades =
                            ReadGrades(hp[student[1]].grades, typed).grades],
                        Output("add_grades", "graded", student_name, <<>>, 0))

\* The students with grades, as <<name, average>>, in list order.
AllAverages(st, hp) ==
    LET graded == SelectSeq(st, LAMBDA ref : hp[ref].grades # <<>>) IN
    [k \in 1..Len(graded) |->
        <<hp[graded[k]].name, calculate_average(hp[graded[k]].grades)>>]

\* generate_report: the names on the report's lines and max(all_averages).
generate_report(st, lk, hp) ==
    IF st = <<>>
    THEN Analyzer(st, lk, hp, Output("report", "no_students", <<>>, <<>>, 0))
    ELSE IF ~any_grades(st, hp)
    THEN Analyzer(st, lk, hp, Output("report", "no_grades", <<>>, <<>>, 0))
    ELSE LET all_averages == AllAverages(st, hp) IN
         Analyzer(st, lk, hp,
            Output("report", "report", <<>>,
                   [i \in 1..Len(st) |-> hp[st[i]].name],
                   MaxOf({all_averages[k][2] : k \in 1..Len(all_averages)})))

\* key of max(students, key=...): the average, of [-1] without grades.
TopKey(student) ==
    calculate_average(IF student.grades # <<>> THEN student.grades ELSE <<-1>>)

\* max(students, key=...): the first student of the largest key.
TopStudent(st, hp) ==
    LET i == CHOOSE i \in 1..Len(st) :
                /\ \A j \in 1..Len(st) : TopKey(hp[st[j]]) <= TopKey(hp[st[i]])
                /\ \A j \in 1..(i - 1) : TopKey(hp[st[j]]) < TopKey(hp[st[i]])
    IN hp[st[i]]

\* top_performer that names the student max() returns and no other.
top_performer_names_one(st, lk, hp) ==
    IF st = <<>>
    THEN Analyzer(st, lk, hp, Output("top", "no_students", <<>>, <<>>, 0))
    ELSE IF ~any_grades(st, hp)
    THEN Analyzer(st, lk, hp, Output("top", "no_grades", <<>>, <<>>, 0))
    ELSE Analyzer(st, lk, hp,
            Output("top", "top", <<>>, <<TopStudent(st, hp).name>>,
                   calculate_average(TopStudent(st, hp).grades)))

top_performer(st, lk, hp) ==
    IF st = <<>>
    THEN Analyzer(st, lk, hp, Output("top", "no_students", <<>>, <<>>, 0))
    ELSE IF ~any_grades(st, hp)
    THEN Analyzer(st, lk, hp, Output("top", "no_grades", <<>>, <<>>, 0))
    ELSE LET all_averages == AllAverages(st, hp)
             top_student == TopStudent(st, hp)
             top_average == calculate_average(top_student.grades)
             tops == SelectSeq(all_averages, LAMBDA pair : pair[2] = top_average)
             all_top_students == [k \in 1..Len(tops) |-> tops[k][1]]
         IN Analyzer(st, lk, hp,
                Output("top", "top", <<>>, all_top_students, top_average))

\* What the user types at "Enter student name": the lines up to the one
\* that ends the prompt loop.
NameAttempts ==
    {<<<<"a", "d", "a">>>>,
     <<<<" ", "A", "D", "A", " ">>>>,
     <<<<"h", "u">>>>,
     <<<<"h", "u", " ", " ", "x", "'", "a">>>>,
     <<<<"1">>>>,
     <<<<>>, <<"a", "1">>, <<"h", "u">>>>}

\* What the user types at "Enter a grade".
GradeInputs ==
    {<<"0">>, <<"5", "0">>, <<"1", "0", "0">>, <<"1", "0", "1">>, <<"-", "1">>,
     <<"x">>}

Done == <<"d", "o", "n", "e">>

TypedGrades ==
    {<<g, Done>> : g \in GradeInputs}
    \cup {<<Done>>,
          <<<<"x">>, <<"5", "0">>, <<"D", "o", "n", "e">>>>,
          <<<<"1", "0", "0">>, <<"0">>, Done>>,
          <<<<"5", "0">>, <<"5", "0">>, Done>>}

\* What the user types at "Enter your choice".
ChoiceInputs ==
    {<<"1">>, <<"2">>, <<"3">>, <<"4">>, <<"5">>, <<"7">>, <<"x">>}

\* choice = int(get_choice) is k
Chosen(k) == \E c \in ChoiceInputs : PyIntStr(c).ok /\ PyIntStr(c).val = k

GradesHeld(hp) == SumOf([ref \in 1..Len(hp) |-> Len(hp[ref].grades)])

\* The menu is showing: no operation is running.
AtMenu == out = NoOutput

Becomes(r) ==
    /\ students' = r.students
    /\ lookup' = r.lookup
    /\ heap' = r.heap
    /\ out' = r.out
    /\ UNCHANGED <<table, resp, deleted, workers, calc>>

\* case 1: add_student(students, lookup)
AddStudent ==
    /\ AtMenu
    /\ Chosen(1)
    /\ \E attempts \in NameAttempts :
        /\ check_name(attempts).returned
        /\ Becomes(add_student(students, lookup, heap, attempts))

\* case 2: add_grades(students, lookup)
AddGrades ==
    /\ AtMenu
    /\ Chosen(2)
    /\ \E attempts \in NameAttempts, typed \in TypedGrades :
        LET r == add_grades(students, lookup, heap, attempts, typed) IN
        /\ check_name(attempts).returned
        /\ ReadGrades(<<>>, typed).finished
        /\ GradesHeld(r.heap) <= MaxGrades
        /\ Becomes(r)

\* case 3: generate_report(students)
GenerateReport ==
    /\ AtMenu
    /\ Chosen(3)
    /\ Becomes(generate_report(students, lookup, heap))

\* case 4: top_performer(students)
TopPerformer ==
    /\ AtMenu
    /\ Chosen(4)
    /\ Becomes(top_performer(students, lookup, heap))

\* case 5: the loop breaks and the program ends.
ExitProgram ==
    /\ AtMenu
    /\ Chosen(5)
    /\ Becomes(Analyzer(students, lookup, heap,
                        Output("exit", "exiting", <<>>, <<>>, 0)))

\* int(get_choice) fails, or case _: "Please enter a valid option."
InvalidChoice ==
    /\ AtMenu
    /\ \E c \in ChoiceInputs :
        ~PyIntStr(c).ok \/ PyIntStr(c).val \notin 1..5
    /\ Becomes(Analyzer(students, lookup, heap,
                        Output("menu", "invalid", <<>>, <<>>, 0)))

\* while True: the menu is shown again.
ShowMenu ==
    /\ ~AtMenu
    /\ out.op # "exit"
    /\ Becomes(Analyzer(students, lookup, heap, NoOutput))

NextGrades ==
    \/ AddStudent
    \/ AddGrades
    \/ GenerateReport
    \/ TopPerformer
    \/ ExitProgram
    \/ InvalidChoice
    \/ ShowMenu

SpecGrades == Init /\ [][NextGrades]_vars

\* C16: with at least one student holding grades, top_performer reports
\* exactly the students that hold a grade and whose average, rounded to one
\* decimal, is the largest rounded average among the students with grades:
\* tied students are reported together, each once, and a student without
\* grades is never reported.
IsRoundedAverage(tenths, grades) ==
    LET distance == 10 * SumOf(grades) - tenths * Len(grades) IN
    2 * distance <= Len(grades) /\ 2 * (0 - distance) <= Len(grades)

Graded == {ref \in 1..Len(heap) : \E i \in 1..Len(students) : students[i] = ref /\ heap[ref].grades # <<>>}

RoundedAverage(ref) == CHOOSE t \in -1..1001 : IsRoundedAverage(t, heap[ref].grades)

C16_TopPerformerReportsAllTied ==
    out.op = "top" /\ Graded # {} =>
        LET best == MaxOf({RoundedAverage(ref) : ref \in Graded})
            tops == {heap[ref].name : ref \in {g \in Graded : RoundedAverage(g) = best}}
        IN /\ out.said = "top"
           /\ out.average = best
           /\ {out.names[k] : k \in 1..Len(out.names)} = tops
           /\ Len(out.names) = Cardinality(tops)

\* Two students tied on the largest average with different grades, and a
\* third student without grades, who is not reported.
C16_Witness ==
    /\ out.op = "top"
    /\ Len(out.names) = 2
    /\ Len(students) = 3
    /\ \E i \in 1..3 : heap[students[i]].grades = <<>>
    /\ \E i, j \in 1..3 :
        /\ heap[students[i]].grades = <<100, 0>>
        /\ heap[students[j]].grades = <<50>>

\* C18: after any sequence of menu operations the list and the lookup
\* describe the same students.  The lookup keys are the names in the list,
\* no name occurs twice, each lookup entry is the very record of the list
\* entry of that name, and every stored grade is an integer in 0..100.
\* Adding a name that exists changes nothing, grades given for a name go to
\* the record in the list, and report and top performer change neither
\* structure.
SameStudents(st, lk, hp) ==
    /\ DOMAIN lk = {hp[st[i]].name : i \in 1..Len(st)}
    /\ \A i, j \in 1..Len(st) : hp[st[i]].name = hp[st[j]].name => i = j
    /\ \A i \in 1..Len(st) : lk[hp[st[i]].name] = st[i]
    /\ \A i \in 1..Len(st) : \A k \in 1..Len(hp[st[i]].grades) :
            hp[st[i]].grades[k] \in 0..100

ListView(st, hp) == [i \in 1..Len(st) |-> hp[st[i]]]

C18_ListAndLookupAgree ==
    [][/\ SameStudents(students', lookup', heap')
       /\ out'.op \in {"report", "top", "menu", "exit", "none"} =>
            UNCHANGED <<students, lookup, heap>>
       /\ out'.op = "add_student" /\ out'.said # "added" =>
            UNCHANGED <<students, lookup, heap>>
       /\ out'.op = "add_student" /\ out'.name \in DOMAIN lookup =>
            out'.said = "exists"
       /\ out'.op = "add_student" /\ out'.said = "added" =>
            /\ out'.name \notin DOMAIN lookup
            /\ ListView(students', heap')
                 = Append(ListView(students, heap),
                          [name |-> out'.name, grades |-> <<>>])
       /\ out'.op = "add_grades" =>
            /\ students' = students /\ lookup' = lookup
            /\ \A i \in 1..Len(students) :
                LET old == heap[students[i]]
                    new == heap'[students[i]]
                IN /\ new.name = old.name
                   /\ Len(new.grades) >= Len(old.grades)
                   /\ SubSeq(new.grades, 1, Len(old.grades)) = old.grades
                   /\ new.grades # old.grades =>
                        out'.said = "graded" /\ out'.name = old.name
      ]_vars

\* Grades were given for a student in two rounds, and the list's record
\* of that name holds them all, next to a second student.
C18_Witness ==
    /\ out.op = "add_grades"
    /\ out.said = "graded"
    /\ Len(students) >= 2
    /\ \E i \in 1..Len(students) :
        /\ heap[students[i]].name = out.name
        /\ heap[students[i]].grades = <<50, 100, 0>>

(***************************************************************************)
(* List and Search on tables of up to MaxRows rows, more than the largest  *)
(* limit, and paginate_books called as a function with a limit that the    *)
(* List endpoint would refuse.                                             *)
(***************************************************************************)
\* The table after n Creates of one book.
Shelf(n) == {Book(i, Du, Hh, None) : i \in 1..n}

InitShelves ==
    /\ \E n \in 0..MaxRows : table = Shelf(n)
    /\ resp = NoResponse
    /\ deleted = {}
    /\ NoWorkers
    /\ calc = NoCall
    /\ AnalyzerStarted

\* paginate_books(database, page, limit), limit above max_limit
PaginateBooks ==
    /\ Idle
    /\ \E page \in {1, 2}, limit \in {MAX_LIMIT + 1, MAX_LIMIT + 2} :
        LET r == paginate_books(table, page, limit) IN
        /\ resp' = Handled("paginate_books", Request(0, page, limit, JAbsent, JAbsent, JAbsent), r)
        /\ table' = r.table
        /\ UNCHANGED <<deleted, workers, calc, analyzer>>

NextShelves ==
    \/ ReadAllBooks
    \/ SearchBook
    \/ PaginateBooks
    \/ EndRequest

SpecShelves == InitShelves /\ [][NextShelves]_vars

\* C17: a List or Search request with page >= 1 and 1 <= limit <= 25 that
\* is answered 200 reports the limit it asked for and carries between 1 and
\* limit books.  paginate_books called with a limit above 25 reports 25
\* and carries as many books as the requested limit cuts from the table,
\* which can be more than it reports.
C17_PageWithinReportedLimit ==
    /\ /\ resp.op \in {"list", "search"}
       /\ resp.req.page >= 1 /\ resp.req.limit >= 1 /\ resp.req.limit <= 25
       /\ resp.status = HTTP_200_OK
       => /\ resp.limit = resp.req.limit
          /\ Len(resp.books) >= 1
          /\ Len(resp.books) <= resp.limit
    /\ resp.op = "paginate_books" /\ resp.status = HTTP_200_OK
       => LET left == Cardinality(table) - (resp.req.page - 1) * resp.req.limit IN
          /\ resp.limit = 25
          /\ Len(resp.books) = IF left < resp.req.limit THEN left ELSE resp.req.limit

\* paginate_books(page 1, limit 26) on 26 rows or more: 26 books under a
\* reported limit of 25.
C17_Witness ==
    /\ resp.op = "paginate_books"
    /\ resp.status = HTTP_200_OK
    /\ Len(resp.books) > resp.limit

====
